---- MODULE Spec2Model ----
(***************************************************************************)
(* Poke-combat: a single-page application that lists Pokemon fetched from  *)
(* a REST catalogue, lets the user select two of them and plays a timed    *)
(* combat between the two.  The model covers the data fetcher              *)
(* (getCharacters, getSingleCharacter), the list/selection page            *)
(* (CharacterList), the detail page (CharacterDetail), the combat page     *)
(* (Combat) and the combat sequencer (CombatResult) with its browser       *)
(* timers.  Time is counted in units of 500 ms.                            *)
(***************************************************************************)
EXTENDS Integers, Sequences, FiniteSets, TLC

\* ------------------------------------------------------------------ bounds
\* number of Pokemon the catalogue server knows
CatalogSize == 3
\* longest fighters sequence handed to the combat page through location state
MaxFighters == 3
\* number of "Battle Again" clicks followed within one mounted combat
MaxRestarts == 1
\* largest index Math.floor(Math.random() * moves.length) is followed to
MaxMoveIndex == 1
\* number of "Load More" clicks followed on one list page
MaxLoadMore == 2
\* entries the catalogue server holds in each block of PageLimit positions
PageFill == 2

\* ------------------------------------------------------- program constants
\* page size and offset step of CharacterList
PageLimit == 20
\* rounds of one combat
maxRounds == 5
\* setTimeout(simulateCombat, 1000) of the mount effect
StartDelay == 2
\* setInterval(..., 2500)
TickPeriod == 5
\* setTimeout(reset animations, 1000)
ResetDelay == 2
\* setTimeout(determine winner, 1500)
ResolveDelay == 3
\* setTimeout(simulateCombat, 500) of restartCombat
RestartDelay == 1

\* the absent value (null / undefined)
Null == [isNull |-> TRUE]

VARIABLES
    route,              \* the route the router renders
    locationState,      \* useLocation().state of the current history entry
    characters,         \* CharacterList: loaded Pokemon
    selectedCharacters, \* CharacterList: selected fighters
    loading,            \* CharacterList: initial load pending
    loadingMore,        \* CharacterList: load-more pending
    offset,             \* CharacterList: offset of the next page
    loads,              \* load-more clicks so far on this list page
    call,               \* the getCharacters call in flight
    detail,             \* CharacterDetail state and its getSingleCharacter call
    fighters,           \* CombatResult: the fighters prop
    mounted,            \* CombatResult is mounted
    combatLog,          \* CombatResult state
    currentAttacker,    \* CombatResult state
    combatFinished,     \* CombatResult state
    winner,             \* CombatResult state
    fighterStates,      \* CombatResult state
    timers,             \* pending browser timers, in creation order
    sims,               \* closure variables of every simulateCombat invocation
    restarts            \* "Battle Again" clicks so far

listVars == <<characters, selectedCharacters, loading, loadingMore, offset, loads, call>>
combatVars == <<fighters, mounted, combatLog, currentAttacker, combatFinished, winner,
                fighterStates, timers, sims, restarts>>
vars == <<route, locationState, listVars, detail, combatVars>>

\* ------------------------------------------------------------ the catalogue
\* what the detail endpoint serves for the Pokemon with a given id
PokemonName(id) ==
    CASE id = 1 -> <<"p", "i", "k", "a">>
      [] id = 2 -> <<"c", "h", "a", "r">>
      [] id = 3 -> <<"g", "e", "n">>
      [] OTHER  -> <<"m", "e", "w">>

PokemonAttack(id) ==
    CASE id = 1 -> 55
      [] id = 2 -> 84
      [] id = 3 -> 55
      [] OTHER  -> 84

PokemonType(id) ==
    CASE id = 1 -> "electric"
      [] id = 2 -> "fire"
      [] id = 3 -> "ghost"
      [] OTHER  -> "water"

\* a well-formed detail response body
DetailData(id) ==
    [ id    |-> id,
      name  |-> PokemonName(id),
      stats |-> << [name |-> "hp", base_stat |-> 35],
                   [name |-> "attack", base_stat |-> PokemonAttack(id)] >>,
      types |-> << PokemonType(id) >> ]

\* a detail response body without an attack stat
MalformedData(id) ==
    [ id    |-> id,
      name  |-> PokemonName(id),
      stats |-> << [name |-> "hp", base_stat |-> 35] >>,
      types |-> << PokemonType(id) >> ]

\* the position of Pokemon id in the server's listing.  The server is not part
\* of the repository; the one followed here keeps its pages short: of every
\* block of PageLimit positions only the first PageFill hold an entry.
PositionOf(id) == ((id - 1) \div PageFill) * PageLimit + ((id - 1) % PageFill) + 1

\* the listing endpoint: the ids at positions offset+1 .. offset+limit, in order
ListingResults(limit, off) ==
    LET ids == {id \in 1..CatalogSize : off < PositionOf(id) /\ PositionOf(id) <= off + limit}
    IN  IF ids = {} THEN <<>>
        ELSE LET lo == CHOOSE id \in ids : \A other \in ids : id <= other
             IN  [k \in 1..Cardinality(ids) |-> lo + k - 1]

\* ------------------------------------------------------------- data fetcher
TypeError == [error |-> "TypeError"]

\* pokemon.stats.find(stat => stat.stat.name === 'attack')
FindAttack(stats) ==
    IF \E i \in 1..Len(stats) : stats[i].name = "attack"
    THEN stats[CHOOSE i \in 1..Len(stats) :
                   /\ stats[i].name = "attack"
                   /\ \A j \in 1..(i - 1) : stats[j].name # "attack"]
    ELSE Null

\* the object literal both fetchers build from a detail body; reading a
\* property of undefined throws
ToFighter(pokemon) ==
    IF FindAttack(pokemon.stats) = Null \/ pokemon.types = <<>>
    THEN TypeError
    ELSE [ id     |-> pokemon.id,
           name   |-> pokemon.name,
           attack |-> FindAttack(pokemon.stats).base_stat,
           type   |-> pokemon.types[1] ]

\* the body a detail request answered with outcome o delivers
Body(id, o) == IF o = "ok" THEN DetailData(id) ELSE MalformedData(id)

IdleCall ==
    [ pc |-> "idle", purpose |-> "none", limit |-> 0, offset |-> 0,
      results |-> <<>>, got |-> <<>>, error |-> "none", value |-> <<>> ]

\* getCharacters(limit, offset) up to its first await
getCharacters(purpose, limit, off) ==
    [ pc |-> "list", purpose |-> purpose, limit |-> limit, offset |-> off,
      results |-> <<>>, got |-> <<>>, error |-> "none", value |-> <<>> ]

\* a catch block that rethrows
getCharactersRethrow(c) == [c EXCEPT !.pc = "rejected"]

\* the catch block of getCharacters: log, return []
getCharactersCatch(c) == [c EXCEPT !.pc = "fulfilled", !.value = <<>>]

\* an exception e raised inside the try block of getCharacters
getCharactersThrow(c, e) == getCharactersCatch([c EXCEPT !.error = e])

\* detailedPokemons.map(...) and the return, once Promise.all has resolved
getCharactersReturn(c) ==
    LET mapped == [i \in 1..Len(c.results) |-> ToFighter(Body(c.results[i], c.got[i]))]
    IN  IF \E i \in 1..Len(mapped) : mapped[i] = TypeError
        THEN getCharactersThrow(c, "TypeError")
        ELSE [c EXCEPT !.pc = "fulfilled", !.value = mapped]

\* the listing request settles: transport error, a body without results, or a page
ListResponse(o) ==
    /\ call.pc = "list"
    /\ call' = IF o # "ok"
               THEN getCharactersThrow(call, IF o = "error" THEN "AxiosError" ELSE "TypeError")
               ELSE LET rs == ListingResults(call.limit, call.offset)
                        c  == [call EXCEPT !.pc = "details", !.results = rs,
                                           !.got = [i \in 1..Len(rs) |-> "pending"]]
                    IN  IF rs = <<>> THEN getCharactersReturn(c) ELSE c
    /\ UNCHANGED <<route, locationState, characters, selectedCharacters, loading,
                   loadingMore, offset, loads, detail, combatVars>>

\* one of the concurrent detail requests settles, in any order
DetailResponse(i, o) ==
    /\ call.pc = "details"
    /\ i \in 1..Len(call.got)
    /\ call.got[i] = "pending"
    /\ call' = IF o = "error"
               THEN getCharactersThrow(call, "AxiosError")
               ELSE LET c == [call EXCEPT !.got[i] = o]
                    IN  IF \A j \in 1..Len(c.got) : c.got[j] # "pending"
                        THEN getCharactersReturn(c)
                        ELSE c
    /\ UNCHANGED <<route, locationState, characters, selectedCharacters, loading,
                   loadingMore, offset, loads, detail, combatVars>>

NoDetail ==
    [ id |-> 0, character |-> Null, loading |-> TRUE, pc |-> "idle",
      error |-> "none", value |-> Null ]

\* CharacterDetail mounted for id: its effect has called getSingleCharacter(id)
MountDetail(id) ==
    [ id |-> id, character |-> Null, loading |-> TRUE, pc |-> "pending",
      error |-> "none", value |-> Null ]

\* the catch block of getSingleCharacter: log, return null
getSingleCharacterCatch(d) == [d EXCEPT !.pc = "fulfilled", !.value = Null]

\* an exception e raised inside the try block of getSingleCharacter
getSingleCharacterThrow(d, e) == getSingleCharacterCatch([d EXCEPT !.error = e])

\* the return of getSingleCharacter once its request has delivered a body
getSingleCharacterReturn(d, pokemon) ==
    IF ToFighter(pokemon) = TypeError
    THEN getSingleCharacterThrow(d, "TypeError")
    ELSE [d EXCEPT !.pc = "fulfilled", !.value = ToFighter(pokemon)]

\* the detail request of getSingleCharacter settles; an id the catalogue does
\* not know is answered with an error status, which axios throws
SingleResponse(o) ==
    /\ detail.pc = "pending"
    /\ detail.id \notin 1..CatalogSize => o = "error"
    /\ detail' = IF o = "error"
                 THEN getSingleCharacterThrow(detail, "AxiosError")
                 ELSE getSingleCharacterReturn(detail, Body(detail.id, o))
    /\ UNCHANGED <<route, locationState, listVars, combatVars>>

\* the .then of CharacterDetail's effect
CharacterDetailThen ==
    /\ route = "/characters/:id"
    /\ detail.pc = "fulfilled"
    /\ detail' = [detail EXCEPT !.pc = "done", !.character = detail.value,
                                !.loading = FALSE]
    /\ UNCHANGED <<route, locationState, listVars, combatVars>>

\* ------------------------------------------------------------ CharacterList
Range(seq) == {seq[i] : i \in 1..Len(seq)}

\* selectedCharacters.includes(character)
Includes(seq, x) == \E i \in 1..Len(seq) : seq[i] = x

\* selectedCharacters.filter(c => c.id !== character.id)
FilterOutId(seq, id) == SelectSeq(seq, LAMBDA c : c.id # id)

\* handleSelect without the limit of two
handleSelectResultUnlimited(selected, character) ==
    IF Includes(selected, character)
    THEN FilterOutId(selected, character.id)
    ELSE Append(selected, character)

\* what handleSelect(character) passes to setSelectedCharacters, or the
\* unchanged selection when it passes nothing
handleSelectResult(selected, character) ==
    IF Includes(selected, character)
    THEN FilterOutId(selected, character.id)
    ELSE IF Len(selected) < 2
         THEN Append(selected, character)
         ELSE selected

\* the button rendered for any non-empty selection
StartCombatOfferedForAny == route = "/" /\ ~loading /\ Len(selectedCharacters) >= 1

\* the "Start Combat" button is rendered
StartCombatOffered == route = "/" /\ ~loading /\ Len(selectedCharacters) = 2

\* the state of the list page right after mounting: the useState initial
\* values, and the mount effect has called getCharacters(20, 0)
ListFirstRender ==
    [ characters |-> <<>>, selectedCharacters |-> <<>>, loading |-> TRUE,
      loadingMore |-> FALSE, offset |-> 0, loads |-> 0,
      call |-> getCharacters("initial", PageLimit, 0) ]

\* no list page is mounted: its state is gone, and the result of a call still
\* in flight is dropped
ListGone == [ListFirstRender EXCEPT !.call = IdleCall]

ListIs(l) ==
    /\ characters = l.characters
    /\ selectedCharacters = l.selectedCharacters
    /\ loading = l.loading
    /\ loadingMore = l.loadingMore
    /\ offset = l.offset
    /\ loads = l.loads
    /\ call = l.call

ListBecomes(l) ==
    /\ characters' = l.characters
    /\ selectedCharacters' = l.selectedCharacters
    /\ loading' = l.loading
    /\ loadingMore' = l.loadingMore
    /\ offset' = l.offset
    /\ loads' = l.loads
    /\ call' = l.call

\* the .then of the mount effect
InitialLoadThen ==
    /\ route = "/"
    /\ call.purpose = "initial"
    /\ call.pc = "fulfilled"
    /\ characters' = call.value
    /\ loading' = FALSE
    /\ offset' = PageLimit
    /\ call' = IdleCall
    /\ UNCHANGED <<route, locationState, selectedCharacters, loadingMore, loads,
                   detail, combatVars>>

\* the "Load More" button is rendered and not disabled
LoadMoreOffered == route = "/" /\ ~loading /\ ~loadingMore

\* click on "Load More": loadMorePokemon up to its await
loadMorePokemon ==
    /\ LoadMoreOffered
    /\ loads < MaxLoadMore
    /\ loadingMore' = TRUE
    /\ loads' = loads + 1
    /\ call' = getCharacters("more", PageLimit, offset)
    /\ UNCHANGED <<route, locationState, characters, selectedCharacters, loading,
                   offset, detail, combatVars>>

\* loadMorePokemon advancing the offset only past a page that held records
loadMoreResumeRetryingEmpty ==
    /\ route = "/"
    /\ call.purpose = "more"
    /\ call.pc \in {"fulfilled", "rejected"}
    /\ IF call.pc = "fulfilled" /\ call.value # <<>>
       THEN /\ characters' = characters \o call.value
            /\ offset' = offset + PageLimit
       ELSE UNCHANGED <<characters, offset>>
    /\ loadingMore' = FALSE
    /\ call' = IdleCall
    /\ UNCHANGED <<route, locationState, selectedCharacters, loading, loads,
                   detail, combatVars>>

\* loadMorePokemon after its await: try body or catch, then finally
loadMoreResume ==
    /\ route = "/"
    /\ call.purpose = "more"
    /\ call.pc \in {"fulfilled", "rejected"}
    /\ IF call.pc = "fulfilled"
       THEN /\ characters' = characters \o call.value
            /\ offset' = offset + PageLimit
       ELSE UNCHANGED <<characters, offset>>
    /\ loadingMore' = FALSE
    /\ call' = IdleCall
    /\ UNCHANGED <<route, locationState, selectedCharacters, loading, loads,
                   detail, combatVars>>

\* click on the Select / Unselect button of a card
handleSelect(character) ==
    /\ route = "/"
    /\ ~loading
    /\ Includes(characters, character)
    /\ selectedCharacters' = handleSelectResult(selectedCharacters, character)
    /\ UNCHANGED <<route, locationState, characters, loading, loadingMore, offset,
                   loads, call, detail, combatVars>>

\* click on the "More Info" link of a card
MoreInfo(character) ==
    /\ route = "/"
    /\ ~loading
    /\ Includes(characters, character)
    /\ route' = "/characters/:id"
    /\ locationState' = Null
    /\ detail' = MountDetail(character.id)
    /\ ListBecomes(ListGone)
    /\ UNCHANGED combatVars

\* click on "Back to Pokemon List": a plain link, the application loads anew
BackToList ==
    /\ route = "/characters/:id"
    /\ ~detail.loading
    /\ detail.character # Null
    /\ route' = "/"
    /\ locationState' = Null
    /\ detail' = NoDetail
    /\ ListBecomes(ListFirstRender)
    /\ UNCHANGED combatVars

\* ------------------------------------------------------------- CombatResult
\* Combat: const { fighters } = state || { fighters: [] }
CombatFighters(state) == IF state = Null THEN <<>> ELSE state.fighters

\* the early return taken only for fewer than two fighters
NeedAtLeastTwoFighters(fs) == Len(fs) < 2

\* the early return of CombatResult: no hook runs, no state exists
NeedTwoFighters(fs) == Len(fs) # 2

\* { ...fighter, isAttacking, isHit }
WithFlags(fighter, attacking, hit) ==
    [ id |-> fighter.id, name |-> fighter.name, attack |-> fighter.attack,
      type |-> fighter.type, isAttacking |-> attacking, isHit |-> hit ]

\* the initial value of fighterStates, also what restartCombat sets
InitialFighterStates(fs) ==
    << WithFlags(fs[1], FALSE, FALSE), WithFlags(fs[2], FALSE, FALSE) >>

\* the table lookup of getRandomMove with its fallback
attackMoves(type) ==
    CASE type = "fire"     -> <<"Flamethrower", "Fire Blast", "Ember", "Fire Punch">>
      [] type = "water"    -> <<"Water Gun", "Hydro Pump", "Bubble Beam", "Surf">>
      [] type = "grass"    -> <<"Vine Whip", "Solar Beam", "Leaf Blade", "Petal Dance">>
      [] type = "electric" -> <<"Thunderbolt", "Thunder", "Thunder Shock", "Quick Attack">>
      [] type = "normal"   -> <<"Tackle", "Body Slam", "Quick Attack", "Hyper Beam">>
      [] OTHER             -> <<"Tackle", "Scratch", "Quick Attack", "Body Slam">>

\* the moves getRandomMove(type) can return
getRandomMove(type) ==
    LET moves == attackMoves(type)
    IN  {moves[k + 1] : k \in {j \in 0..(Len(moves) - 1) : j <= MaxMoveIndex}}

\* String.prototype.toUpperCase on one character
toUpperCase(ch) ==
    CASE ch = "p" -> "P" [] ch = "i" -> "I" [] ch = "k" -> "K" [] ch = "a" -> "A"
      [] ch = "c" -> "C" [] ch = "h" -> "H" [] ch = "r" -> "R" [] ch = "g" -> "G"
      [] ch = "e" -> "E" [] ch = "n" -> "N" [] ch = "m" -> "M" [] ch = "w" -> "W"
      [] OTHER -> ch

\* str.charAt(0).toUpperCase() + str.slice(1)
capitalizeFirst(str) ==
    IF str = <<>> THEN <<>> ELSE <<toUpperCase(Head(str))>> \o Tail(str)

\* `${capitalizeFirst(attackerPokemon.name)} uses ${move}!`
AttackLine(name, move) == capitalizeFirst(name) \o <<" uses ", move, "!">>

\* `${capitalizeFirst(combatWinner.name)} wins the battle!`
WinnerLine(name) == capitalizeFirst(name) \o <<" wins the battle!">>

\* the comparison reversed
combatWinnerLower(fs) == IF fs[1].attack < fs[2].attack THEN fs[1] ELSE fs[2]

\* the comparison made non-strict
combatWinnerFirstOnTie(fs) == IF fs[1].attack >= fs[2].attack THEN fs[1] ELSE fs[2]

\* const combatWinner = fighters[0].attack > fighters[1].attack ? fighters[0] : fighters[1]
combatWinner(fs) == IF fs[1].attack > fs[2].attack THEN fs[1] ELSE fs[2]

\* a state setter called on the component: dropped once it is unmounted
SetState(old, new) == IF mounted THEN new ELSE old

Timer(kind, delay, sim) == [kind |-> kind, rem |-> delay, sim |-> sim]

RemoveAt(seq, i) == [j \in 1..(Len(seq) - 1) |-> IF j < i THEN seq[j] ELSE seq[j + 1]]

\* the timer the event loop runs next: the first created among those due
DueTimers == {i \in 1..Len(timers) : timers[i].rem = 0}
NextDue == CHOOSE i \in DueTimers : \A j \in DueTimers : i <= j
Fires(kind) == DueTimers # {} /\ timers[NextDue].kind = kind

\* the state of CombatResult rendered for the first time with the fighters
\* prop fs: the useState initial values, and the timeout of the mount effect
FirstRender(fs) ==
    [ fighters        |-> fs,
      mounted         |-> TRUE,
      combatLog       |-> <<>>,
      currentAttacker |-> 0,
      combatFinished  |-> FALSE,
      winner          |-> Null,
      fighterStates   |-> IF NeedTwoFighters(fs) THEN <<>> ELSE InitialFighterStates(fs),
      timers          |-> IF NeedTwoFighters(fs) THEN <<>>
                          ELSE <<Timer("start", StartDelay, 0)>>,
      sims            |-> <<>>,
      restarts        |-> 0 ]

\* no combat page is mounted
CombatGone ==
    [ fighters |-> <<>>, mounted |-> FALSE, combatLog |-> <<>>, currentAttacker |-> 0,
      combatFinished |-> FALSE, winner |-> Null, fighterStates |-> <<>>,
      timers |-> <<>>, sims |-> <<>>, restarts |-> 0 ]

CombatIs(c) ==
    /\ fighters = c.fighters
    /\ mounted = c.mounted
    /\ combatLog = c.combatLog
    /\ currentAttacker = c.currentAttacker
    /\ combatFinished = c.combatFinished
    /\ winner = c.winner
    /\ fighterStates = c.fighterStates
    /\ timers = c.timers
    /\ sims = c.sims
    /\ restarts = c.restarts

CombatBecomes(c) ==
    /\ fighters' = c.fighters
    /\ mounted' = c.mounted
    /\ combatLog' = c.combatLog
    /\ currentAttacker' = c.currentAttacker
    /\ combatFinished' = c.combatFinished
    /\ winner' = c.winner
    /\ fighterStates' = c.fighterStates
    /\ timers' = c.timers
    /\ sims' = c.sims
    /\ restarts' = c.restarts

\* what CombatResult renders
View ==
    IF route # "/combat" \/ ~mounted THEN "none"
    ELSE IF NeedTwoFighters(fighters) THEN "Please select two Pokemon."
    ELSE "combat-arena"

\* the button rendered without its guard
RestartOfferedAlways == View = "combat-arena"

\* the "Battle Again" button is rendered
RestartOffered == View = "combat-arena" /\ combatFinished /\ winner # Null

\* click on "Start Combat": navigate('/combat', { state: { fighters } })
startCombat ==
    /\ StartCombatOffered
    /\ route' = "/combat"
    /\ locationState' = [fighters |-> selectedCharacters]
    /\ CombatBecomes(FirstRender(CombatFighters([fighters |-> selectedCharacters])))
    /\ ListBecomes(ListGone)
    /\ UNCHANGED detail

\* simulateCombat(): fresh closure variables and the interval
simulateCombat(ts) ==
    /\ sims' = Append(sims, [attacker |-> 0, round |-> 1])
    /\ timers' = Append(ts, Timer("interval", TickPeriod, Len(sims) + 1))

\* time passes while no timer is due
Advance ==
    /\ timers # <<>>
    /\ DueTimers = {}
    /\ timers' = [i \in 1..Len(timers) |-> [timers[i] EXCEPT !.rem = @ - 1]]
    /\ UNCHANGED <<route, locationState, listVars, detail, fighters, mounted, combatLog,
                   currentAttacker, combatFinished, winner, fighterStates, sims, restarts>>

\* the timeout of the mount effect fires
StartTimeout ==
    /\ Fires("start")
    /\ simulateCombat(RemoveAt(timers, NextDue))
    /\ UNCHANGED <<route, locationState, listVars, detail, fighters, mounted, combatLog,
                   currentAttacker, combatFinished, winner, fighterStates, restarts>>

\* the timeout of restartCombat fires
RestartTimeout ==
    /\ Fires("restart")
    /\ simulateCombat(RemoveAt(timers, NextDue))
    /\ UNCHANGED <<route, locationState, listVars, detail, fighters, mounted, combatLog,
                   currentAttacker, combatFinished, winner, fighterStates, restarts>>

\* the end check with the comparison off by one
CombatShouldEndLate(round) == round > maxRounds

\* if (round >= maxRounds)
CombatShouldEnd(round) == round >= maxRounds

\* the closure update without the switch of attacker
KeepAttacker(env) == [attacker |-> env.attacker, round |-> env.round + 1]

\* attacker = 1 - attacker; round++
SwitchAttacker(env) == [attacker |-> 1 - env.attacker, round |-> env.round + 1]

\* the setInterval callback of simulateCombat runs once
IntervalTick ==
    /\ Fires("interval")
    /\ LET i        == NextDue
           env      == sims[timers[i].sim]
           attacker == env.attacker
           attackerPokemon == fighters[attacker + 1]
           rearmed  == [timers EXCEPT ![i].rem = TickPeriod]
           reset    == Append(rearmed, Timer("reset", ResetDelay, 0))
       IN  /\ \E move \in getRandomMove(attackerPokemon.type) :
                combatLog' = SetState(combatLog,
                                 Append(combatLog, AttackLine(attackerPokemon.name, move)))
           /\ fighterStates' = SetState(fighterStates,
                 [index \in 1..Len(fighterStates) |->
                     WithFlags(fighterStates[index], index - 1 = attacker,
                               index - 1 = 1 - attacker)])
           /\ timers' = IF CombatShouldEnd(env.round)
                        THEN Append(RemoveAt(reset, i), Timer("resolve", ResolveDelay, 0))
                        ELSE reset
           /\ sims' = [sims EXCEPT ![timers[i].sim] = SwitchAttacker(env)]
    /\ UNCHANGED <<route, locationState, listVars, detail, fighters, mounted,
                   currentAttacker, combatFinished, winner, restarts>>

\* the "reset animations" timeout fires
ResetAnimations ==
    /\ Fires("reset")
    /\ fighterStates' = SetState(fighterStates,
          [index \in 1..Len(fighterStates) |->
              WithFlags(fighterStates[index], FALSE, FALSE)])
    /\ timers' = RemoveAt(timers, NextDue)
    /\ UNCHANGED <<route, locationState, listVars, detail, fighters, mounted, combatLog,
                   currentAttacker, combatFinished, winner, sims, restarts>>

\* the "determine winner" timeout fires
DetermineWinner ==
    /\ Fires("resolve")
    /\ winner' = SetState(winner, combatWinner(fighters))
    /\ combatFinished' = SetState(combatFinished, TRUE)
    /\ combatLog' = SetState(combatLog,
                        Append(combatLog, WinnerLine(combatWinner(fighters).name)))
    /\ timers' = RemoveAt(timers, NextDue)
    /\ UNCHANGED <<route, locationState, listVars, detail, fighters, mounted,
                   currentAttacker, fighterStates, sims, restarts>>

\* restartCombat without setCombatLog([])
restartCombatKeepingLog ==
    /\ RestartOffered
    /\ restarts < MaxRestarts
    /\ restarts' = restarts + 1
    /\ currentAttacker' = 0
    /\ combatFinished' = FALSE
    /\ winner' = Null
    /\ fighterStates' = InitialFighterStates(fighters)
    /\ timers' = Append(timers, Timer("restart", RestartDelay, 0))
    /\ UNCHANGED <<route, locationState, listVars, detail, fighters, mounted, sims,
                   combatLog>>

\* click on "Battle Again"
restartCombat ==
    /\ RestartOffered
    /\ restarts < MaxRestarts
    /\ restarts' = restarts + 1
    /\ combatLog' = <<>>
    /\ currentAttacker' = 0
    /\ combatFinished' = FALSE
    /\ winner' = Null
    /\ fighterStates' = InitialFighterStates(fighters)
    /\ timers' = Append(timers, Timer("restart", RestartDelay, 0))
    /\ UNCHANGED <<route, locationState, listVars, detail, fighters, mounted, sims>>

\* the cleanup of the mount effect: clearTimeout(startCombat)
EffectCleanup(ts) == SelectSeq(ts, LAMBDA t : t.kind # "start")

\* the user leaves the combat page, CombatResult is unmounted; what is
\* rendered next is not followed
Unmount ==
    /\ route = "/combat"
    /\ mounted
    /\ route' = "elsewhere"
    /\ mounted' = FALSE
    /\ timers' = IF NeedTwoFighters(fighters) THEN timers ELSE EffectCleanup(timers)
    /\ UNCHANGED <<locationState, listVars, detail, fighters, combatLog, currentAttacker,
                   combatFinished, winner, fighterStates, sims, restarts>>

\* ------------------------------------------------------------ specification
\* fighters sequences a history entry can carry
Catalog == {ToFighter(DetailData(id)) : id \in 1..CatalogSize}
FighterInputs == UNION {[1..n -> Catalog] : n \in 0..MaxFighters}
LocationStates == {Null} \cup {[fighters |-> fs] : fs \in FighterInputs}

\* the application opened on the list page
InitList ==
    /\ route = "/"
    /\ locationState = Null
    /\ ListIs(ListFirstRender)
    /\ detail = NoDetail
    /\ CombatIs(CombatGone)

\* the application opened on a detail page, also of an id no Pokemon has
InitDetail ==
    /\ route = "/characters/:id"
    /\ locationState = Null
    /\ ListIs(ListGone)
    /\ \E id \in 1..(CatalogSize + 1) : detail = MountDetail(id)
    /\ CombatIs(CombatGone)

\* the application opened on the combat page, with whatever state the history
\* entry carries
InitCombat ==
    /\ route = "/combat"
    /\ locationState \in LocationStates
    /\ ListIs(ListGone)
    /\ detail = NoDetail
    /\ CombatIs(FirstRender(CombatFighters(locationState)))

Init == InitList \/ InitDetail \/ InitCombat

Outcomes == {"ok", "error", "malformed"}

Next ==
    \/ \E o \in Outcomes : ListResponse(o)
    \/ \E i \in 1..CatalogSize, o \in Outcomes : DetailResponse(i, o)
    \/ InitialLoadThen
    \/ loadMorePokemon
    \/ loadMoreResume
    \/ \E character \in Range(characters) : handleSelect(character)
    \/ \E character \in Range(characters) : MoreInfo(character)
    \/ \E o \in Outcomes : SingleResponse(o)
    \/ CharacterDetailThen
    \/ BackToList
    \/ startCombat
    \/ Advance
    \/ StartTimeout
    \/ IntervalTick
    \/ ResetAnimations
    \/ DetermineWinner
    \/ RestartTimeout
    \/ restartCombat
    \/ Unmount

Spec == Init /\ [][Next]_vars

\* the combat sequencer alone: the combat page opened with any location state
CombatNext ==
    \/ Advance
    \/ StartTimeout
    \/ IntervalTick
    \/ ResetAnimations
    \/ DetermineWinner
    \/ RestartTimeout
    \/ restartCombat
    \/ Unmount

\* the event loop runs every timer that is due, and time does not stop
TimerFairness ==
    /\ WF_vars(Advance)
    /\ WF_vars(StartTimeout)
    /\ WF_vars(IntervalTick)
    /\ WF_vars(ResetAnimations)
    /\ WF_vars(DetermineWinner)
    /\ WF_vars(RestartTimeout)

FairCombatSpec == InitCombat /\ [][CombatNext]_vars /\ TimerFairness

\* --------------------------------------------------------------- properties
Finished == combatFinished /\ winner # Null

AllMoves(type) == Range(attackMoves(type))

\* line is an attack line of fighter f
IsAttackLineOf(line, f) == \E m \in AllMoves(f.type) : line = AttackLine(f.name, m)

IsAttackLine(line) == \E f \in Range(fighters) : IsAttackLineOf(line, f)

\* ticks of the interval of the latest simulateCombat invocation so far
TicksFired == IF sims = <<>> THEN 0 ELSE sims[Len(sims)].round - 1

FlagsClear ==
    \A i \in 1..Len(fighterStates) :
        ~fighterStates[i].isAttacking /\ ~fighterStates[i].isHit

FinishedShape ==
    /\ TicksFired = 5
    /\ Len(combatLog) = 6
    /\ \A k \in 1..5 : IsAttackLine(combatLog[k])
    /\ combatLog[6] = WinnerLine(winner.name)
    /\ ~IsAttackLine(combatLog[6])

\* C1: a combat of two fighters that stays mounted eventually reaches Finished
\* (combatFinished, winner set); whenever it is Finished, exactly 5 ticks have
\* fired and the log holds 5 attack lines followed by the winner line.
C1_FinishesAfterFiveRounds ==
    /\ [](Finished => FinishedShape)
    /\ (View = "combat-arena" /\ ~Finished) ~> (Finished \/ ~mounted)

C1_Witness == Finished /\ mounted /\ Len(combatLog) = 6 /\ TicksFired = 5

\* C2: in Finished the winner is one of the two participants, its attack is
\* at least the other's, and with different attacks it is the participant
\* with the strictly greater attack.
C2_WinnerHasGreaterAttack ==
    Finished =>
        /\ winner \in {fighters[1], fighters[2]}
        /\ winner.attack >= fighters[1].attack
        /\ winner.attack >= fighters[2].attack
        /\ fighters[1].attack > fighters[2].attack => winner = fighters[1]
        /\ fighters[2].attack > fighters[1].attack => winner = fighters[2]

C2_Witness ==
    /\ Finished
    /\ fighters[1].attack = 55
    /\ fighters[2].attack = 84
    /\ winner = fighters[2]

\* C3 as stated: with equal attack values the first participant is declared winner.
C3_FirstWinsTies ==
    (Finished /\ fighters[1].attack = fighters[2].attack) => winner = fighters[1]

\* C3 amended: with equal attack values the second participant (fighters[1] of
\* the source, the else branch of the comparison) is declared winner and named
\* by the winner line.
C3_SecondWinsTies ==
    (Finished /\ fighters[1].attack = fighters[2].attack) =>
        /\ winner = fighters[2]
        /\ combatLog[Len(combatLog)] = WinnerLine(fighters[2].name)

C3_Witness ==
    /\ Finished
    /\ fighters[1].attack = fighters[2].attack
    /\ fighters[1] # fighters[2]
    /\ winner = fighters[2]

\* C4: a combat page given a fighters sequence of any length other than 2
\* shows the advisory while mounted, has no timer pending, has run no
\* simulateCombat, and its log stays empty with no winner.
C4_NeedTwoFighters ==
    (route \in {"/combat", "elsewhere"} /\ Len(fighters) # 2) =>
        /\ mounted => View = "Please select two Pokemon."
        /\ timers = <<>>
        /\ sims = <<>>
        /\ combatLog = <<>>
        /\ winner = Null
        /\ ~combatFinished
        /\ FlagsClear

C4_Witness ==
    /\ route = "/combat"
    /\ locationState = Null
    /\ fighters = <<>>
    /\ View = "Please select two Pokemon."

C4_WitnessThree == route = "elsewhere" /\ Len(fighters) = 3 /\ combatLog = <<>>

\* C5: the step that restarts a finished combat leaves the log empty, all
\* flags false, no winner and combatFinished false; a finished log is never
\* extended, so every line of the next run is appended to the emptied log.
C5_RestartResets ==
    /\ [][(Finished /\ ~combatFinished') =>
             /\ combatLog' = <<>>
             /\ FlagsClear'
             /\ Len(fighterStates') = 2
             /\ winner' = Null]_vars
    /\ [][Finished => (combatLog' = combatLog \/ combatLog' = <<>>)]_vars
    /\ [](restarts > 0 => Len(combatLog) <= 6)

C5_Witness == restarts > 0 /\ mounted /\ Len(combatLog) = 1 /\ ~combatFinished

\* C6: once CombatResult is torn down, the interval and every pending timeout
\* are cancelled, so no timer of the combat is left to fire.
C6_TeardownCancelsTimers == (route = "elsewhere" /\ ~mounted) => timers = <<>>

NoDuplicates(seq) == \A i, j \in 1..Len(seq) : seq[i] = seq[j] => i = j

\* C7: the selection never holds more than two records nor one record twice,
\* and every change of it by a click either removes exactly one selected
\* record or appends one unselected listed record to fewer than two.
C7_AtMostTwoSelected ==
    /\ [](Len(selectedCharacters) <= 2 /\ NoDuplicates(selectedCharacters))
    /\ [][(route = "/" /\ route' = "/" /\ selectedCharacters' # selectedCharacters) =>
             \E c \in Range(characters) :
                 \/ /\ Includes(selectedCharacters, c)
                    /\ selectedCharacters' = SelectSeq(selectedCharacters, LAMBDA x : x # c)
                    /\ Len(selectedCharacters') = Len(selectedCharacters) - 1
                 \/ /\ ~Includes(selectedCharacters, c)
                    /\ Len(selectedCharacters) < 2
                    /\ selectedCharacters' = Append(selectedCharacters, c)]_vars

C7_Witness ==
    /\ route = "/"
    /\ Len(selectedCharacters) = 2
    /\ \E c \in Range(characters) : ~Includes(selectedCharacters, c)

\* C8: every navigation from the list page to the combat page starts from a
\* selection of exactly two records and hands those two, in selection order,
\* to CombatResult, which then renders the arena and keeps rendering it while
\* the combat page is shown.
C8_BeginCombatHandsTwo ==
    /\ [][(route = "/" /\ route' = "/combat") =>
             /\ Len(selectedCharacters) = 2
             /\ locationState' = [fighters |-> selectedCharacters]
             /\ fighters' = selectedCharacters
             /\ View' = "combat-arena"]_vars
    /\ [][(View = "combat-arena" /\ route' = "/combat") => View' = "combat-arena"]_vars
    /\ [](StartCombatOffered => Len(selectedCharacters) = 2 /\ NoDuplicates(selectedCharacters))

C8_Witness ==
    /\ route = "/combat"
    /\ locationState # Null
    /\ Len(fighters) = 2
    /\ fighters[1].id = 3
    /\ fighters[2].id = 1
    /\ Finished

\* the page getCharacters returns when nothing fails
FullPage(c) == [i \in 1..Len(c.results) |-> ToFighter(DetailData(c.results[i]))]

\* C9: a settled getCharacters call is never rejected; its value is the empty
\* sequence whenever an error was raised or a body was malformed, and the
\* complete page otherwise.  A settled getSingleCharacter call is never
\* rejected; its value is null whenever an error was raised, as for an id the
\* catalogue does not know.
C9_FailSoft ==
    /\ call.pc # "rejected"
    /\ call.pc = "fulfilled" =>
          /\ call.error # "none" => call.value = <<>>
          /\ (\E i \in 1..Len(call.got) : call.got[i] = "malformed") => call.value = <<>>
          /\ call.error = "none" =>
                /\ call.value = FullPage(call)
                /\ call.results = ListingResults(call.limit, call.offset)
    /\ detail.pc # "rejected"
    /\ detail.pc \in {"fulfilled", "done"} =>
          /\ detail.error # "none" => detail.value = Null
          /\ detail.id \notin 1..CatalogSize => detail.value = Null
          /\ detail.error = "none" => detail.value = ToFighter(DetailData(detail.id))
    /\ detail.pc = "done" => detail.character = detail.value

C9_Witness ==
    /\ call.pc = "fulfilled"
    /\ call.error = "AxiosError"
    /\ Len(call.results) = 2
    /\ call.got[1] = "ok"
    /\ call.value = <<>>

C9_WitnessSingle ==
    /\ detail.pc = "fulfilled"
    /\ detail.id = CatalogSize + 1
    /\ detail.value = Null

Pending(kinds) == {i \in 1..Len(timers) : timers[i].kind \in kinds}

\* C11: while mounted, at most one interval and at most one timer that drives
\* a run (start, restart, interval, resolve) is pending; wherever "Battle
\* Again" is offered no timer at all is pending; clicking it withdraws the
\* offer and leaves the restart timeout as the only timer; and outside the
\* restart delay every line of the log was appended by the latest run.
C11_OneRunAtATime ==
    /\ [](RestartOffered => (Finished /\ timers = <<>>))
    /\ [](mounted => Cardinality(Pending({"interval"})) <= 1)
    /\ [](mounted =>
            Cardinality(Pending({"start", "restart", "interval", "resolve"})) <= 1)
    /\ [][(RestartOffered /\ ~combatFinished') =>
             /\ ~RestartOffered'
             /\ Len(timers') = 1
             /\ timers'[1].kind = "restart"]_vars
    /\ []((mounted /\ sims # <<>> /\ Pending({"restart"}) = {}) =>
            Len(combatLog) = TicksFired + (IF combatFinished THEN 1 ELSE 0))

C11_Witness ==
    /\ mounted
    /\ restarts = 1
    /\ Len(sims) = 2
    /\ Cardinality(Pending({"interval"})) = 1
    /\ Cardinality(Pending({"reset"})) = 1
    /\ Len(combatLog) = 3

\* C12: "Load More" is offered only while no getCharacters call is in flight
\* and after the initial load; the initial load requests offset 0 and the k-th
\* load-more requests the current offset, 20 * k, so no offset is requested
\* twice; a completed load-more appends exactly the records the call returned
\* and advances the offset by 20, also when the call failed soft and the list
\* stays as it was.
C12_LoadMoreAdvancesOffset ==
    /\ [](LoadMoreOffered => (call.pc = "idle" /\ offset = PageLimit * (loads + 1)))
    /\ []((route = "/" /\ call.purpose = "initial") =>
            (loading /\ ~loadingMore /\ loads = 0 /\ offset = 0 /\ characters = <<>>
             /\ call.offset = 0 /\ call.limit = PageLimit))
    /\ []((route = "/" /\ call.purpose = "more") =>
            (loadingMore /\ ~loading /\ call.limit = PageLimit
             /\ call.offset = offset /\ call.offset = PageLimit * loads))
    /\ [][(~loadingMore /\ loadingMore') =>
             (LoadMoreOffered /\ loads' = loads + 1 /\ call'.pc = "list"
              /\ call'.offset = offset /\ offset' = offset /\ characters' = characters)]_vars
    /\ [][(loadingMore /\ ~loadingMore' /\ route' = "/") =>
             /\ call.pc = "fulfilled"
             /\ offset' = offset + PageLimit
             /\ characters' = characters \o call.value
             /\ call.error # "none" => characters' = characters
             /\ call.error = "none" => call.value = FullPage(call)
             /\ call'.pc = "idle"]_vars
    /\ [][(route = "/" /\ route' = "/" /\ characters' # characters) =>
             (call.pc = "fulfilled" /\ characters' = characters \o call.value)]_vars

\* a load-more of offset 40 in flight after the load-more of offset 20 failed soft
C12_Witness ==
    /\ route = "/"
    /\ call.purpose = "more"
    /\ call.pc = "list"
    /\ call.offset = 40
    /\ loads = 2
    /\ Len(characters) = 2

\* a load-more has appended the record its page held
C12_WitnessAppended ==
    /\ route = "/"
    /\ LoadMoreOffered
    /\ offset = 40
    /\ Len(characters) = 3
    /\ characters[3].id = 3

====
